---- MODULE Spec2Model ----
(***************************************************************************)
(* The parser-combinator toolkit of compiler-utils as a state machine:     *)
(* the FileWalker cursor (src/parser/walker.rs), the leaf parsers          *)
(* (src/parser/parsers/leaves.rs) and the combinators                      *)
(* (src/parser/parsers/combinators.rs).                                    *)
(*                                                                         *)
(* A text is a sequence of characters; byte offsets are computed from the  *)
(* UTF-8 length of each character, so that an offset can fall inside a     *)
(* multi-byte character.  Option<T> is a sequence of length at most one.   *)
(***************************************************************************)
EXTENDS Integers, Sequences, FiniteSets, TLC

VARIABLES all_data, all_data_ptr, filename, current_byte_index, column, line,
          grammar, saved, last

vars == <<all_data, all_data_ptr, filename, current_byte_index, column, line,
          grammar, saved, last>>

(***************************************************************************)
(* Characters and texts                                                    *)
(***************************************************************************)
CR == "\r"
LF == "\n"
OUML == "o-umlaut"              \* U+00F6, two bytes in UTF-8
INVALID == "invalid"            \* what decoding from inside a character yields

Chars == {CR, LF, OUML}

\* Longest source text explored.
MaxLen == 3

\* Largest number of lines of context asked of expand_span.
MaxRadius == 2

\* Largest number of notes given to one rendering.
MaxNotes == 3

RECURSIVE TextsOfLen(_)
TextsOfLen(n) ==
    IF n = 0 THEN {<<>>}
    ELSE {<<c>> \o t : c \in Chars, t \in TextsOfLen(n - 1)}

Texts == UNION {TextsOfLen(n) : n \in 0..MaxLen}

\* The address of the literal "" (a static string, outside every source buffer).
STATIC == -1

len_utf8(c) == IF c = OUML THEN 2 ELSE 1

\* str::len: the length of a text in bytes.
RECURSIVE len(_)
len(s) == IF s = <<>> THEN 0 ELSE len_utf8(Head(s)) + len(Tail(s))

\* Number of characters that end at or before byte offset i.
chars_before(s, i) == Cardinality({k \in 1..Len(s) : len(SubSeq(s, 1, k)) <= i})

is_char_boundary_nocheck(s, i) == i <= len(s)

\* str::is_char_boundary: offset 0, the end, or the first byte of a character.
is_char_boundary(s, i) ==
    \/ i = 0
    \/ i = len(s)
    \/ \E k \in 1..Len(s) : len(SubSeq(s, 1, k)) = i

\* &s[a..b] for offsets on character boundaries.
slice(s, a, b) == SubSeq(s, chars_before(s, a) + 1, chars_before(s, b))

(***************************************************************************)
(* Location, Span (location.rs)                                            *)
(***************************************************************************)
Location(c, l, f) == [column |-> c, line |-> l, filename |-> f]

\* A span's data is a borrowed view: its characters and the address it starts at.
Span(location, data, ptr) == [location |-> location, data |-> data, ptr |-> ptr]

(***************************************************************************)
(* FileWalker (walker.rs): the operations as functions of a walker record  *)
(***************************************************************************)
from_data(data, name) ==
    [all_data |-> data, all_data_ptr |-> 0, filename |-> name,
     current_byte_index |-> 0, column |-> 0, line |-> 0]

from_span_column_zero(span) ==
    [all_data |-> span.data, all_data_ptr |-> span.ptr,
     filename |-> span.location.filename,
     current_byte_index |-> 0,
     column |-> 0, line |-> span.location.line]

from_span(span) ==
    [all_data |-> span.data, all_data_ptr |-> span.ptr,
     filename |-> span.location.filename,
     current_byte_index |-> 0,
     column |-> span.location.column, line |-> span.location.line]

current_location(w) == Location(w.column, w.line, w.filename)

get_marker(w) ==
    [index |-> w.current_byte_index, line |-> w.line, column |-> w.column]

\* The bytes from the current offset on, viewed as text without validation:
\* from inside a character the first thing decoded is not a character of the
\* source.
current_string(w) ==
    IF w.current_byte_index >= len(w.all_data) THEN <<>>
    ELSE LET k == chars_before(w.all_data, w.current_byte_index)
         IN  IF is_char_boundary(w.all_data, w.current_byte_index)
             THEN SubSeq(w.all_data, k + 1, Len(w.all_data))
             ELSE <<INVALID>> \o SubSeq(w.all_data, k + 2, Len(w.all_data))

step_column_bytes(w) ==
    LET s == current_string(w)
    IN  IF s # <<>>
        THEN LET c == Head(s)
             IN  [walker |-> [w EXCEPT !.current_byte_index = @ + len_utf8(c),
                                       !.line = IF c = LF THEN @ + 1 ELSE @,
                                       !.column = IF c = LF THEN 0
                                                  ELSE @ + len_utf8(c)],
                  character |-> <<c>>]
        ELSE [walker |-> w, character |-> <<>>]

step_nolinefeed(w) ==
    LET s == current_string(w)
    IN  IF s # <<>>
        THEN [walker |-> [w EXCEPT !.current_byte_index = @ + len_utf8(Head(s)),
                                   !.column = @ + 1],
              character |-> <<Head(s)>>]
        ELSE [walker |-> w, character |-> <<>>]

step(w) ==
    LET s == current_string(w)
    IN  IF s # <<>>
        THEN LET c == Head(s)
             IN  [walker |-> [w EXCEPT !.current_byte_index = @ + len_utf8(c),
                                       !.line = IF c = LF THEN @ + 1 ELSE @,
                                       !.column = IF c = LF THEN 0 ELSE @ + 1],
                  character |-> <<c>>]
        ELSE [walker |-> w, character |-> <<>>]

pop_back_unchecked(w, marker) ==
    [walker |-> [w EXCEPT !.current_byte_index = marker.index,
                          !.line = marker.line,
                          !.column = marker.column],
     ok |-> TRUE]

pop_back_keeps_line(w, marker) ==
    IF is_char_boundary(w.all_data, marker.index)
    THEN [walker |-> [w EXCEPT !.current_byte_index = marker.index,
                               !.column = marker.column],
          ok |-> TRUE]
    ELSE [walker |-> w, ok |-> FALSE]

pop_back(w, marker) ==
    IF is_char_boundary(w.all_data, marker.index)
    THEN [walker |-> [w EXCEPT !.current_byte_index = marker.index,
                               !.line = marker.line,
                               !.column = marker.column],
          ok |-> TRUE]
    ELSE [walker |-> w, ok |-> FALSE]

span_from_marker_unordered(w, marker) ==
    IF marker.index = w.current_byte_index
    THEN <<Span(current_location(w), <<>>, STATIC)>>
    ELSE IF ~is_char_boundary(w.all_data, marker.index)
         THEN <<>>
         ELSE <<Span(Location(marker.column, marker.line, w.filename),
                     slice(w.all_data, marker.index, w.current_byte_index),
                     w.all_data_ptr + marker.index)>>

span_from_marker_to_here(w, marker) ==
    IF marker.index = w.current_byte_index
    THEN <<Span(current_location(w), <<>>, STATIC)>>
    ELSE IF \/ ~is_char_boundary(w.all_data, marker.index)
            \/ marker.index > w.current_byte_index
         THEN <<>>
         ELSE <<Span(Location(marker.column, marker.line, w.filename),
                     slice(w.all_data, marker.index, w.current_byte_index),
                     w.all_data_ptr + marker.index)>>

get_location_of_marker(w, marker) ==
    IF is_char_boundary(w.all_data, marker.index)
    THEN <<Location(marker.column, marker.line, w.filename)>>
    ELSE <<>>

\* The backwards walk of expand_span from byte offset index with
\* lines_remaining line feeds still to find: the offset it ends at, unless the
\* inner loop spins inside a multi-byte character or the two-byte slice is out
\* of range or ends inside a character.
RECURSIVE walk_back(_, _, _)
walk_back(data, index, lines_remaining) ==
    IF index = 0 THEN [status |-> "ok", index |-> 0]
    ELSE LET current_index == index - 1
         IN  IF current_index > 0 /\ ~is_char_boundary(data, current_index)
             THEN [status |-> "diverge", index |-> current_index]
             ELSE IF \/ current_index + 2 > len(data)
                     \/ ~is_char_boundary(data, current_index + 2)
             THEN [status |-> "panic", index |-> current_index]
             ELSE IF data[chars_before(data, current_index) + 1] = LF
             THEN IF lines_remaining - 1 = 0
                  THEN [status |-> "ok", index |-> current_index + 1]
                  ELSE walk_back(data, current_index, lines_remaining - 1)
             ELSE walk_back(data, current_index, lines_remaining)

\* The forwards walk of expand_span over the characters s from byte offset
\* index: the offset of the line feed that ends the last line wanted, or the
\* end of the text.
RECURSIVE walk_forward(_, _, _)
walk_forward(s, index, lines_remaining) ==
    IF s = <<>> THEN index
    ELSE IF Head(s) = LF
         THEN IF lines_remaining - 1 = 0 THEN index
              ELSE walk_forward(Tail(s), index + 1, lines_remaining - 1)
         ELSE walk_forward(Tail(s), index + len_utf8(Head(s)), lines_remaining)

expand_span(w, span, lines_away) ==
    IF span.ptr < w.all_data_ptr THEN [status |-> "panic"]
    ELSE
    LET span_byte_index == span.ptr - w.all_data_ptr
    IN  IF span_byte_index > len(w.all_data) THEN [status |-> "panic"]
        ELSE
        LET start_line_number ==
                (IF span.location.line > lines_away THEN span.location.line
                 ELSE lines_away) - lines_away
            location == Location(0, start_line_number, w.filename)
            back == IF start_line_number = 0 THEN [status |-> "ok", index |-> 0]
                    ELSE walk_back(w.all_data, span_byte_index,
                                   span.location.line - start_line_number + 1)
        IN  IF back.status # "ok" THEN [status |-> back.status]
            ELSE IF ~is_char_boundary(w.all_data, span_byte_index)
            THEN [status |-> "panic"]
            ELSE
            LET current_index ==
                    walk_forward(slice(w.all_data, span_byte_index,
                                       len(w.all_data)),
                                 span_byte_index, lines_away + 1)
            IN  [status |-> "ok",
                 span |-> Span(location,
                               slice(w.all_data, back.index, current_index),
                               w.all_data_ptr + back.index)]

(***************************************************************************)
(* Errors (errors.rs) and parse results                                    *)
(***************************************************************************)
ExpectedTag(s) == [variant |-> "ExpectedTag", payload |-> s]
ExpectedKind(kind) == [variant |-> "ExpectedKind", payload |-> kind]
ExpectedOneOfKind(kind) == [variant |-> "ExpectedOneOfKind", payload |-> kind]
ExpectedOneOf(s) == [variant |-> "ExpectedOneOf", payload |-> s]
InverseFailedGot(data) == [variant |-> "InverseFailedGot", payload |-> data]

ParsingError(location, kind) == [location |-> location, kind |-> kind]

\* What a call of a parsing function does: it returns Ok(value) or Err(error),
\* aborts in a failed unwrap ("panic"), or never returns ("diverge"); walker is
\* the cursor it leaves, started the markers at which a combinator started
\* its components, in order.
Ok(value, w, started) ==
    [status |-> "ok", value |-> value, walker |-> w, started |-> started]
Err(error, w, started) ==
    [status |-> "err", error |-> error, walker |-> w, started |-> started]
Panic(w) == [status |-> "panic", walker |-> w, started |-> <<>>]
Diverge(w) == [status |-> "diverge", walker |-> w, started |-> <<>>]

\* Option::unwrap, then the continuation's result.
UnwrapSpan(option, w, started) ==
    IF Len(option) = 0 THEN Panic(w) ELSE Ok(option[1], w, started)
UnwrapErr(option, kind, w, started) ==
    IF Len(option) = 0 THEN Panic(w)
    ELSE Err(ParsingError(option[1], kind), w, started)

(***************************************************************************)
(* Parsing functions as terms; Run(p, w) calls the function p on walker w. *)
(***************************************************************************)
Tag(s) == [kind |-> "tag", s |-> s]
OneOf(s) == [kind |-> "one_of", charset |-> s]
TakeWhile(f) == [kind |-> "take_while", f |-> f]
TakeIf(f) == [kind |-> "take_if", f |-> f]
Map(p) == [kind |-> "map", combinator |-> p]
Pair(a, b) == [kind |-> "pair", first |-> a, second |-> b]
Triple(a, b, c) == [kind |-> "triple", first |-> a, second |-> b, third |-> c]
Opt(a) == [kind |-> "opt", first |-> a]
Alt(a, b) == [kind |-> "alt", first |-> a, second |-> b]
ButNot(a, b) == [kind |-> "but_not", first |-> a, second |-> b]
Accepts(p) == [kind |-> "accepts", combinator |-> p]
AcceptsWhile(p) == [kind |-> "accepts_while", combinator |-> p]

RECURSIVE Run(_, _)

(***************************************************************************)
(* Leaf parsers (leaves.rs)                                                *)
(***************************************************************************)
\* The loop of tag: step once per character of s, stop at the first step that
\* does not return that character.
RECURSIVE tag_steps_to_end(_, _)
tag_steps_to_end(s, w) ==
    IF s = <<>> THEN [walker |-> w, matched |-> TRUE]
    ELSE LET r == step(w)
         IN  IF r.character = <<>> THEN [walker |-> r.walker, matched |-> TRUE]
             ELSE IF r.character # <<Head(s)>>
             THEN [walker |-> r.walker, matched |-> FALSE]
             ELSE tag_steps_to_end(Tail(s), r.walker)

RECURSIVE tag_steps(_, _)
tag_steps(s, w) ==
    IF s = <<>> THEN [walker |-> w, matched |-> TRUE]
    ELSE LET r == step(w)
         IN  IF r.character # <<Head(s)>>
             THEN [walker |-> r.walker, matched |-> FALSE]
             ELSE tag_steps(Tail(s), r.walker)

tag_no_pop_back(s, w) ==
    LET start == get_marker(w)
        r == tag_steps(s, w)
    IN  IF ~r.matched
        THEN UnwrapErr(get_location_of_marker(r.walker, start), ExpectedTag(s),
                       r.walker, <<>>)
        ELSE UnwrapSpan(span_from_marker_to_here(r.walker, start), r.walker, <<>>)

tag(s, w) ==
    LET start == get_marker(w)
        r == tag_steps(s, w)
    IN  IF ~r.matched
        THEN LET back == pop_back(r.walker, start).walker
             IN  UnwrapErr(get_location_of_marker(back, start), ExpectedTag(s),
                           back, <<>>)
        ELSE UnwrapSpan(span_from_marker_to_here(r.walker, start), r.walker, <<>>)

\* s is the set of the characters of the charset string.
one_of(s, w) ==
    LET start == get_marker(w)
        r == step(w)
    IN  IF Len(r.character) = 1 /\ r.character[1] \in s
        THEN UnwrapSpan(span_from_marker_to_here(r.walker, start), r.walker, <<>>)
        ELSE LET back == pop_back(r.walker, start).walker
             IN  UnwrapErr(get_location_of_marker(back, start), ExpectedOneOf(s),
                           back, <<>>)

\* A predicate on characters with the name of its class: f.chars are the
\* characters that satisfy it.
take_while_steps_one(f, s, w) ==
    IF s = <<>> \/ Head(s) \notin f.chars THEN w ELSE step(w).walker

RECURSIVE take_while_steps(_, _, _)
take_while_steps(f, s, w) ==
    IF s = <<>> \/ Head(s) \notin f.chars THEN w
    ELSE take_while_steps(f, Tail(s), step(w).walker)

take_while(f, w) ==
    LET s == current_string(w)
        start == get_marker(w)
        after == take_while_steps(f, s, w)
    IN  IF get_marker(after) = start
        THEN Err(ParsingError(current_location(after), ExpectedKind(f.kind)),
                 after, <<>>)
        ELSE UnwrapSpan(span_from_marker_to_here(after, start), after, <<>>)

take_if_any(f, w) ==
    LET start == get_marker(w)
        r == step(w)
    IN  IF Len(r.character) = 1
        THEN UnwrapSpan(span_from_marker_to_here(r.walker, start), r.walker, <<>>)
        ELSE LET back == pop_back(r.walker, start).walker
             IN  UnwrapErr(get_location_of_marker(back, start),
                           ExpectedOneOfKind(f.kind), back, <<>>)

take_if(f, w) ==
    LET start == get_marker(w)
        r == step(w)
    IN  IF Len(r.character) = 1 /\ r.character[1] \in f.chars
        THEN UnwrapSpan(span_from_marker_to_here(r.walker, start), r.walker, <<>>)
        ELSE LET back == pop_back(r.walker, start).walker
             IN  UnwrapErr(get_location_of_marker(back, start),
                           ExpectedOneOfKind(f.kind), back, <<>>)

(***************************************************************************)
(* Combinators (combinators.rs)                                            *)
(***************************************************************************)
\* The function given to map: any function of the value.
MapF(v) == [mapped |-> v]

map_rewinds(combinator, w) ==
    LET r == Run(combinator, w)
    IN  IF r.status = "ok"
        THEN Ok(MapF(r.value),
                [r.walker EXCEPT !.current_byte_index = 0, !.line = 0,
                                 !.column = 0],
                <<get_marker(w)>>)
        ELSE [r EXCEPT !.started = <<get_marker(w)>>]

map(combinator, w) ==
    LET r == Run(combinator, w)
    IN  IF r.status = "ok"
        THEN Ok(MapF(r.value), r.walker, <<get_marker(w)>>)
        ELSE [r EXCEPT !.started = <<get_marker(w)>>]

pair_error_at_start(first, second, w) ==
    LET start == get_marker(w)
        ra == Run(first, w)
    IN  IF ra.status # "ok" THEN [ra EXCEPT !.started = <<start>>]
        ELSE LET rb == Run(second, ra.walker)
                 st == <<start, get_marker(ra.walker)>>
             IN  CASE rb.status = "err" ->
                        Err(ParsingError(current_location(w), rb.error.kind),
                            pop_back(rb.walker, start).walker, st)
                   [] rb.status = "ok" ->
                        Ok(<<ra.value, rb.value>>, rb.walker, st)
                   [] OTHER -> [rb EXCEPT !.started = st]

pair(first, second, w) ==
    LET start == get_marker(w)
        ra == Run(first, w)
    IN  IF ra.status # "ok" THEN [ra EXCEPT !.started = <<start>>]
        ELSE LET rb == Run(second, ra.walker)
                 st == <<start, get_marker(ra.walker)>>
             IN  CASE rb.status = "err" ->
                        Err(rb.error, pop_back(rb.walker, start).walker, st)
                   [] rb.status = "ok" ->
                        Ok(<<ra.value, rb.value>>, rb.walker, st)
                   [] OTHER -> [rb EXCEPT !.started = st]

triple(first, second, third, w) ==
    LET start == get_marker(w)
        ra == Run(first, w)
    IN  IF ra.status # "ok" THEN [ra EXCEPT !.started = <<start>>]
        ELSE LET rb == Run(second, ra.walker)
                 st2 == <<start, get_marker(ra.walker)>>
             IN  CASE rb.status = "err" ->
                        Err(rb.error, pop_back(rb.walker, start).walker, st2)
                   [] rb.status = "ok" ->
                        LET rc == Run(third, rb.walker)
                            st3 == Append(st2, get_marker(rb.walker))
                        IN  CASE rc.status = "err" ->
                                   Err(rc.error,
                                       pop_back(rc.walker, start).walker, st3)
                              [] rc.status = "ok" ->
                                   Ok(<<ra.value, rb.value, rc.value>>,
                                      rc.walker, st3)
                              [] OTHER -> [rc EXCEPT !.started = st3]
                   [] OTHER -> [rb EXCEPT !.started = st2]

opt(first, w) ==
    LET r == Run(first, w)
        st == <<get_marker(w)>>
    IN  CASE r.status = "ok" -> Ok(<<r.value>>, r.walker, st)
          [] r.status = "err" -> Ok(<<>>, r.walker, st)
          [] OTHER -> [r EXCEPT !.started = st]

alt_first_error(first, second, w) ==
    LET r == Run(first, w)
    IN  IF r.status = "err"
        THEN LET r2 == Run(second, r.walker)
                 st == <<get_marker(w), get_marker(r.walker)>>
             IN  IF r2.status = "err" THEN Err(r.error, r2.walker, st)
                 ELSE [r2 EXCEPT !.started = st]
        ELSE [r EXCEPT !.started = <<get_marker(w)>>]

alt(first, second, w) ==
    LET r == Run(first, w)
    IN  IF r.status = "err"
        THEN [Run(second, r.walker) EXCEPT
                 !.started = <<get_marker(w), get_marker(r.walker)>>]
        ELSE [r EXCEPT !.started = <<get_marker(w)>>]

but_not_rolls_back(first, second, w) ==
    LET start == get_marker(w)
        r == Run(first, w)
        st == <<start>>
    IN  IF r.status # "ok" THEN [r EXCEPT !.started = st]
        ELSE
        LET span == span_from_marker_to_here(r.walker, start)[1]
            r2 == Run(second, from_span(span))
        IN  CASE r2.status = "ok" ->
                   IF r2.walker.current_byte_index = len(span.data)
                   THEN Err(ParsingError(Location(start.column, start.line,
                                                  w.filename),
                                         InverseFailedGot(span.data)),
                            pop_back(r.walker, start).walker, st)
                   ELSE Ok(r.value, r.walker, st)
              [] r2.status = "err" -> Ok(r.value, r.walker, st)
              [] OTHER -> [r2 EXCEPT !.walker = r.walker, !.started = st]

but_not_any_match(first, second, w) ==
    LET start == get_marker(w)
        r == Run(first, w)
        st == <<start>>
    IN  IF r.status # "ok" THEN [r EXCEPT !.started = st]
        ELSE
        LET span == span_from_marker_to_here(r.walker, start)[1]
            r2 == Run(second, from_span(span))
        IN  CASE r2.status = "ok" ->
                   Err(ParsingError(Location(start.column, start.line,
                                             w.filename),
                                    InverseFailedGot(span.data)),
                       r.walker, st)
              [] r2.status = "err" -> Ok(r.value, r.walker, st)
              [] OTHER -> [r2 EXCEPT !.walker = r.walker, !.started = st]

but_not(first, second, w) ==
    LET start == get_marker(w)
        r == Run(first, w)
        st == <<start>>
    IN  IF r.status # "ok" THEN [r EXCEPT !.started = st]
        ELSE
        LET option == span_from_marker_to_here(r.walker, start)
        IN  IF Len(option) = 0 THEN Panic(r.walker)
            ELSE
            LET span == option[1]
                walker_of_first == from_span(span)
                second_start == get_marker(walker_of_first)
                r2 == Run(second, walker_of_first)
            IN  CASE r2.status = "ok" ->
                       LET option2 ==
                               span_from_marker_to_here(r2.walker, second_start)
                       IN  IF Len(option2) = 0 THEN Panic(r.walker)
                           ELSE IF option2[1].data = span.data
                           THEN UnwrapErr(get_location_of_marker(r.walker, start),
                                          InverseFailedGot(span.data),
                                          r.walker, st)
                           ELSE Ok(r.value, r.walker, st)
                  [] r2.status = "err" -> Ok(r.value, r.walker, st)
                  [] OTHER -> [r2 EXCEPT !.walker = r.walker, !.started = st]

accepts(combinator, w) ==
    LET start == get_marker(w)
        r == Run(combinator, w)
    IN  IF r.status # "ok" THEN [r EXCEPT !.started = <<start>>]
        ELSE UnwrapSpan(span_from_marker_to_here(r.walker, start), r.walker,
                        <<start>>)

\* while combinator(walker).is_ok() {}: the cursor the loop ends with.  A run
\* that succeeds and leaves the cursor as it found it succeeds again for ever.
RECURSIVE accepts_while_loop(_, _)
accepts_while_loop(combinator, w) ==
    LET r == Run(combinator, w)
    IN  CASE r.status = "ok" ->
               IF r.walker = w THEN Diverge(w)
               ELSE accepts_while_loop(combinator, r.walker)
          [] r.status = "err" -> Ok(<<>>, r.walker, <<>>)
          [] OTHER -> r

accepts_while_once(combinator, w) ==
    LET start == get_marker(w)
        r == Run(combinator, w)
    IN  IF r.status # "ok" THEN [r EXCEPT !.started = <<start>>]
        ELSE UnwrapSpan(span_from_marker_to_here(r.walker, start), r.walker,
                        <<start>>)

accepts_while(combinator, w) ==
    LET start == get_marker(w)
        r == Run(combinator, w)
    IN  IF r.status # "ok" THEN [r EXCEPT !.started = <<start>>]
        ELSE LET l == accepts_while_loop(combinator, r.walker)
             IN  IF l.status # "ok" THEN [l EXCEPT !.started = <<start>>]
                 ELSE UnwrapSpan(span_from_marker_to_here(l.walker, start),
                                 l.walker, <<start>>)

Run(p, w) ==
    CASE p.kind = "tag" -> tag(p.s, w)
      [] p.kind = "one_of" -> one_of(p.charset, w)
      [] p.kind = "take_while" -> take_while(p.f, w)
      [] p.kind = "take_if" -> take_if(p.f, w)
      [] p.kind = "map" -> map(p.combinator, w)
      [] p.kind = "pair" -> pair(p.first, p.second, w)
      [] p.kind = "triple" -> triple(p.first, p.second, p.third, w)
      [] p.kind = "opt" -> opt(p.first, w)
      [] p.kind = "alt" -> alt(p.first, p.second, w)
      [] p.kind = "but_not" -> but_not(p.first, p.second, w)
      [] p.kind = "accepts" -> accepts(p.combinator, w)
      [] p.kind = "accepts_while" -> accepts_while(p.combinator, w)

(***************************************************************************)
(* Diagnostics (display.rs).  The output is the sequence of the rows        *)
(* written; colours and the texts of messages are left out of a row.        *)
(***************************************************************************)
\* A note: the span it points at and its text, here the position it had in
\* the list given to the constructor.
Note(span, text) == [span |-> span, note |-> text]

by_line_only(a, b) == a.span.location.line < b.span.location.line

\* The order of ErrorRender::new: ascending line, then descending column.
by_line_then_column(a, b) ==
    \/ a.span.location.line < b.span.location.line
    \/ /\ a.span.location.line = b.span.location.line
       /\ a.span.location.column > b.span.location.column

\* The order of MultiNoteDisplay::new: descending column.
by_column(a, b) == a.span.location.column > b.span.location.column

\* The elements of a vector.
Elements(v) == {v[i] : i \in 1..Len(v)}

\* slice::sort_by, a stable sort, less[a, b] telling whether a compares less
\* than b: an element goes after those that are less and those that are equal
\* and came before it.
sort_by(v, less) ==
    LET rank(i) ==
            Cardinality({j \in 1..Len(v) :
                            \/ less[v[j], v[i]]
                            \/ ~less[v[i], v[j]] /\ ~less[v[j], v[i]] /\ j < i})
    IN  [r \in 1..Len(v) |-> v[CHOOSE i \in 1..Len(v) : rank(i) = r - 1]]

\* The notes as ErrorRender::new stores them.
ErrorRender_new(notes) ==
    sort_by(notes, [a \in Elements(notes), b \in Elements(notes) |->
                       by_line_then_column(a, b)])

MultiNoteDisplay_new_unfiltered(notes, number) ==
    sort_by(notes, [a \in Elements(notes), b \in Elements(notes) |->
                       by_column(a, b)])

MultiNoteDisplay_new(notes, number) ==
    LET on == SelectSeq(notes, LAMBDA v : v.span.location.line = number)
    IN  sort_by(on, [a \in Elements(on), b \in Elements(on) |-> by_column(a, b)])

\* str::split_inclusive('\n'): the pieces of t, each up to and with its line
\* feed.
RECURSIVE split_inclusive(_)
split_inclusive(t) ==
    IF t = <<>> THEN <<>>
    ELSE IF \E k \in 1..Len(t) : t[k] = LF
    THEN LET k == CHOOSE k \in 1..Len(t) :
                      t[k] = LF /\ \A j \in 1..(k - 1) : t[j] # LF
         IN  <<SubSeq(t, 1, k)>> \o split_inclusive(SubSeq(t, k + 1, Len(t)))
    ELSE <<t>>

\* str::lines: the pieces without their line feed and without a carriage
\* return before it.
lines(t) ==
    LET pieces == split_inclusive(t)
        strip(piece) ==
            IF piece[Len(piece)] # LF THEN piece
            ELSE LET l == SubSeq(piece, 1, Len(piece) - 1)
                 IN  IF l # <<>> /\ l[Len(l)] = CR
                     THEN SubSeq(l, 1, Len(l) - 1) ELSE l
    IN  [i \in 1..Len(pieces) |-> strip(pieces[i])]

RegionRender_new(w, span, width) ==
    LET region_span == expand_span(w, span, width)
    IN  IF region_span.status # "ok" THEN [status |-> region_span.status]
        ELSE [status |-> "ok", location |-> region_span.span.location,
              lines |-> lines(region_span.span.data)]

\* The rows written.
Header == [kind |-> "header"]
LineDisplay_fmt(number, data) ==
    [kind |-> "line", number |-> number + 1, data |-> data]
NoteDisplay_fmt(note) ==
    [kind |-> "note", column |-> note.span.location.column,
     carets |-> Len(note.span.data), note |-> note.note]
MultiNoteDisplay_fmt(notes) == [i \in 1..Len(notes) |-> NoteDisplay_fmt(notes[i])]

skip_always_print(number, next_line_needed) == FALSE

\* if line.line_span.location.line < next_line_needed { continue; }
skip(number, next_line_needed) == number < next_line_needed

\* The loop over the notes that looks for the notes of the line just written,
\* from the i-th note on, and the row written after it.
RECURSIVE find_line_note(_, _, _, _)
find_line_note(notes, i, number, line_note) ==
    IF i > Len(notes)
    THEN IF line_note = <<>> THEN <<>> ELSE <<NoteDisplay_fmt(line_note[1])>>
    ELSE IF notes[i].span.location.line = number
         THEN IF line_note = <<>>
              THEN find_line_note(notes, i + 1, number, <<notes[i]>>)
              ELSE MultiNoteDisplay_fmt(
                       MultiNoteDisplay_new(notes, notes[i].span.location.line))
         ELSE find_line_note(notes, i + 1, number, line_note)

\* for line in current_renderer: the lines of a region from line number on.
RECURSIVE render_lines(_, _, _, _, _)
render_lines(notes, ls, number, next_line_needed, output) ==
    IF ls = <<>>
    THEN [output |-> output, next_line_needed |-> next_line_needed]
    ELSE IF skip(number, next_line_needed)
         THEN render_lines(notes, Tail(ls), number + 1, next_line_needed, output)
         ELSE render_lines(notes, Tail(ls), number + 1, number + 1,
                           output \o <<LineDisplay_fmt(number, Head(ls))>>
                                  \o find_line_note(notes, 1, number, <<>>))

\* for note in &self.notes: from the i-th note on.
RECURSIVE render_notes(_, _, _, _, _)
render_notes(w, notes, i, next_line_needed, output) ==
    IF i > Len(notes) THEN [status |-> "ok", output |-> output]
    ELSE LET current_renderer == RegionRender_new(w, notes[i].span, 1)
         IN  IF current_renderer.status # "ok"
             THEN [status |-> current_renderer.status, output |-> output]
             ELSE LET r == render_lines(notes, current_renderer.lines,
                                        current_renderer.location.line,
                                        next_line_needed, output)
                  IN  render_notes(w, notes, i + 1, r.next_line_needed,
                                   r.output)

ErrorRender_fmt(w, notes) == render_notes(w, notes, 1, 0, <<Header, Header>>)

(***************************************************************************)
(* The parsing functions explored                                          *)
(***************************************************************************)
Letter == [kind |-> "letter", chars |-> {OUML}]
Whitespace == [kind |-> "whitespace", chars |-> {CR, LF}]

Literals == {<<>>, <<CR, LF>>, <<OUML>>}
Charsets == {{CR, LF}}
Classes == {Letter, Whitespace}

Leaves ==
    {Tag(s) : s \in Literals} \cup {OneOf(s) : s \in Charsets}
    \cup {TakeWhile(f) : f \in Classes} \cup {TakeIf(f) : f \in Classes}

Unary(S) == {Opt(p) : p \in S} \cup {AcceptsWhile(p) : p \in S}
Wrapped(S) == {Map(p) : p \in S} \cup {Accepts(p) : p \in S}
Binary(S, T) ==
    {Pair(a, b) : a \in S, b \in T} \cup {Alt(a, b) : a \in S, b \in T}
    \cup {ButNot(a, b) : a \in S, b \in T}
Ternary(S, T, U) == {Triple(a, b, c) : a \in S, b \in T, c \in U}

Firsts == {TakeWhile(Letter), Tag(<<CR, LF>>)}
Seconds == {Tag(<<OUML>>), OneOf({CR, LF})}

\* Components: the leaves and the combinators over a few of them.
Inner ==
    Leaves \cup Binary(Firsts, Seconds) \cup Unary(Firsts) \cup Wrapped(Firsts)

Parsers ==
    Inner \cup Unary(Inner) \cup Wrapped(Inner \ Leaves)
    \cup Binary(Inner, Seconds) \cup Binary(Firsts, Inner \ Leaves)
    \cup Ternary(Inner, Seconds, {Tag(<<CR, LF>>)})
    \cup Ternary(Firsts, Inner \ Leaves, {TakeIf(Whitespace)})

\* The parsing functions called between the cursor operations.
WalkGrammar ==
    {TakeWhile(Letter), Tag(<<CR, LF>>),
     Pair(ButNot(TakeWhile(Letter), Tag(<<OUML>>)), OneOf({CR, LF}))}

(***************************************************************************)
(* The state machine                                                       *)
(***************************************************************************)
walker ==
    [all_data |-> all_data, all_data_ptr |-> all_data_ptr, filename |-> filename,
     current_byte_index |-> current_byte_index, column |-> column, line |-> line]

SetWalker(w) ==
    /\ all_data' = w.all_data
    /\ all_data_ptr' = w.all_data_ptr
    /\ filename' = w.filename
    /\ current_byte_index' = w.current_byte_index
    /\ column' = w.column
    /\ line' = w.line

\* A call that panicked or does not return ends the run.
Running ==
    ~(/\ last.op \in {"parse", "expand_span"}
      /\ last.result.status \in {"panic", "diverge"})

RECURSIVE StepsFrom(_)
StepsFrom(w) ==
    {w} \cup (IF current_string(w) = <<>> THEN {} ELSE StepsFrom(step(w).walker))

\* The texts of the other cursors the program takes markers from.
OtherTexts == {<<CR, OUML, LF>>}

\* Markers taken from a cursor over another text.
OtherMarkers ==
    {get_marker(w) :
        w \in UNION {StepsFrom(from_data(t, "other")) : t \in OtherTexts}}

\* A marker the program holds, own while it was taken from the current cursor,
\* with the text that remained when it was taken.
Held(marker, own, remaining) ==
    [marker |-> marker, own |-> own, remaining |-> remaining]

Markers ==
    {saved[i] : i \in 1..Len(saved)}
    \cup {Held(m, FALSE, <<>>) : m \in OtherMarkers}

Init ==
    /\ \E data \in Texts :
          /\ all_data = data
          /\ all_data_ptr = 0
          /\ filename = "input"
          /\ current_byte_index = 0
          /\ column = 0
          /\ line = 0
    /\ grammar = WalkGrammar
    /\ saved = <<>>
    /\ last = [op |-> "from_data"]

InitParse ==
    /\ \E data \in Texts :
          /\ all_data = data
          /\ all_data_ptr = 0
          /\ filename = "input"
          /\ current_byte_index = 0
          /\ column = 0
          /\ line = 0
    /\ \E p \in Parsers : grammar = {p}
    /\ saved = <<>>
    /\ last = [op |-> "from_data"]

Step ==
    /\ Running
    /\ LET r == step(walker)
       IN  /\ SetWalker(r.walker)
           /\ last' = [op |-> "step", pre |-> get_marker(walker),
                       character |-> r.character]
    /\ UNCHANGED <<grammar, saved>>

GetMarker ==
    /\ Running
    /\ saved' = <<Held(get_marker(walker), TRUE, current_string(walker))>>
    /\ last' = [op |-> "get_marker", pre |-> get_marker(walker)]
    /\ UNCHANGED <<all_data, all_data_ptr, filename, current_byte_index, column,
                   line, grammar>>

PopBack ==
    /\ Running
    /\ \E m \in Markers :
          LET r == pop_back(walker, m.marker)
          IN  /\ SetWalker(r.walker)
              /\ last' = [op |-> "pop_back", pre |-> get_marker(walker),
                          held |-> m, ok |-> r.ok]
    /\ UNCHANGED <<grammar, saved>>

SpanFromMarkerToHere ==
    /\ Running
    /\ \E m \in Markers :
          last' = [op |-> "span_from_marker_to_here",
                   pre |-> get_marker(walker), held |-> m,
                   span |-> span_from_marker_to_here(walker, m.marker)]
    /\ UNCHANGED <<all_data, all_data_ptr, filename, current_byte_index, column,
                   line, grammar, saved>>

GetLocationOfMarker ==
    /\ Running
    /\ \E m \in Markers :
          last' = [op |-> "get_location_of_marker",
                   pre |-> get_marker(walker), held |-> m,
                   location |-> get_location_of_marker(walker, m.marker)]
    /\ UNCHANGED <<all_data, all_data_ptr, filename, current_byte_index, column,
                   line, grammar, saved>>

\* A new cursor over the span just obtained with the program's own marker
\* replaces the current one; the marker held was taken from the old cursor.
FromSpan ==
    /\ Running
    /\ last.op = "span_from_marker_to_here"
    /\ Len(last.span) = 1
    /\ last.held.own
    /\ SetWalker(from_span(last.span[1]))
    /\ saved' = [i \in 1..Len(saved) |-> [saved[i] EXCEPT !.own = FALSE]]
    /\ last' = [op |-> "from_span", span |-> last.span[1]]
    /\ UNCHANGED grammar

Parse ==
    /\ Running
    /\ \E p \in grammar :
          LET r == Run(p, walker)
          IN  /\ SetWalker(r.walker)
              /\ last' = [op |-> "parse", pre |-> get_marker(walker),
                          parser |-> p, result |-> r]
    /\ UNCHANGED <<grammar, saved>>

Next ==
    \/ Step
    \/ GetMarker
    \/ PopBack
    \/ SpanFromMarkerToHere
    \/ GetLocationOfMarker
    \/ FromSpan
    \/ Parse

Spec == Init /\ [][Next]_vars

NextParse ==
    \/ Step
    \/ Parse

SpecParse == InitParse /\ [][NextParse]_vars

\* A cursor that walks, takes spans and is replaced by a cursor over a span.
NextSpan ==
    \/ Step
    \/ GetMarker
    \/ SpanFromMarkerToHere
    \/ FromSpan

SpecSpan == Init /\ [][NextSpan]_vars

\* pop_back to the marker the program took from the current cursor.
PopBackOwn ==
    /\ Running
    /\ \E i \in 1..Len(saved) :
          LET r == pop_back(walker, saved[i].marker)
          IN  /\ saved[i].own
              /\ SetWalker(r.walker)
              /\ last' = [op |-> "pop_back", pre |-> get_marker(walker),
                          held |-> saved[i], ok |-> r.ok]
    /\ UNCHANGED <<grammar, saved>>

\* A cursor over any text and one of the components as parsing function.
InitOwn ==
    /\ \E data \in Texts :
          /\ all_data = data
          /\ all_data_ptr = 0
          /\ filename = "input"
          /\ current_byte_index = 0
          /\ column = 0
          /\ line = 0
    /\ \E p \in Inner : grammar = {p}
    /\ saved = <<>>
    /\ last = [op |-> "from_data"]

\* A cursor that walks, runs the parsing functions and is rolled back to its
\* own markers.
NextOwn ==
    \/ Step
    \/ GetMarker
    \/ PopBackOwn
    \/ Parse

SpecOwn == InitOwn /\ [][NextOwn]_vars

\* Where the build can have put the literal "" of span_from_marker_to_here:
\* outside the source, where the assertions of expand_span fail whether it is
\* below or above, or next to it, at the address where the source ends.
LiteralAddresses == {STATIC, all_data_ptr + len(all_data)}

\* A span as it is in a build with the literal "" at addr.
InBuild(span, addr) ==
    IF span.ptr = STATIC THEN [span EXCEPT !.ptr = addr] ELSE span

\* expand_span on the span just obtained with the program's own marker.
ExpandSpan ==
    /\ Running
    /\ last.op = "span_from_marker_to_here"
    /\ Len(last.span) = 1
    /\ last.held.own
    /\ \E lines_away \in 0..MaxRadius, addr \in LiteralAddresses :
          LET span == InBuild(last.span[1], addr)
          IN  last' = [op |-> "expand_span", pre |-> get_marker(walker),
                       span |-> span, lines_away |-> lines_away,
                       result |-> expand_span(walker, span, lines_away)]
    /\ UNCHANGED <<all_data, all_data_ptr, filename, current_byte_index, column,
                   line, grammar, saved>>

NextExpand ==
    \/ Step
    \/ GetMarker
    \/ SpanFromMarkerToHere
    \/ ExpandSpan

SpecExpand == Init /\ [][NextExpand]_vars

\* The spans of notes: those a program obtains from span_since while a cursor
\* walks the source, of one character or of two that reach over a line feed
\* into the next line, and the empty one at the end of input.
NoteSpans ==
    LET ws == StepsFrom(from_data(all_data, filename))
        all == {span_from_marker_to_here(b, get_marker(a))[1] :
                   <<a, b>> \in {<<a, b>> \in ws \X ws :
                                    a.current_byte_index <= b.current_byte_index}}
    IN  {span \in all :
            \/ Len(span.data) = 1
            \/ Len(span.data) = 2 /\ span.data[1] = LF
            \/ span.location = current_location(
                                   CHOOSE w \in ws : current_string(w) = <<>>)}

\* The lists of notes given to ErrorRender::new.
NoteLists ==
    UNION {[1..n -> NoteSpans] : n \in 0..MaxNotes}

\* ErrorRender::new over the cursor, as first use of it.
New ==
    /\ last.op = "from_data"
    /\ \E spans \in NoteLists, addr \in LiteralAddresses :
          LET notes == [i \in 1..Len(spans) |->
                           Note(InBuild(spans[i], addr), i)]
          IN  last' = [op |-> "new", given |-> notes,
                       notes |-> ErrorRender_new(notes)]
    /\ UNCHANGED <<all_data, all_data_ptr, filename, current_byte_index, column,
                   line, grammar, saved>>

\* Display::fmt of the ErrorRender just built.
Fmt ==
    /\ last.op = "new"
    /\ last' = [op |-> "fmt", given |-> last.given, notes |-> last.notes,
                result |-> ErrorRender_fmt(walker, last.notes)]
    /\ UNCHANGED <<all_data, all_data_ptr, filename, current_byte_index, column,
                   line, grammar, saved>>

NextRender ==
    \/ New
    \/ Fmt

SpecRender == Init /\ [][NextRender]_vars

(***************************************************************************)
(* Properties                                                              *)
(***************************************************************************)
\* The cursor as it was when the last operation was called.
PreWalker ==
    [walker EXCEPT !.current_byte_index = last.pre.index,
                   !.line = last.pre.line,
                   !.column = last.pre.column]

Parsed(kinds) == last.op = "parse" /\ last.parser.kind \in kinds

\* Offset i is the start of a character of s, or its end.
OnBoundary(s, i) == \E k \in 0..Len(s) : len(SubSeq(s, 1, k)) = i

\* The character of s that starts at offset i.
CharAt(s, i) == s[chars_before(s, i) + 1]

LeafKinds == {"tag", "one_of", "take_while", "take_if"}

\* C1: whenever tag, one_of, take_while or take_if returns a failure, the
\* cursor's byte offset, line and column are what they were before the call.
C1_LeafFailureLeavesCursor ==
    (Parsed(LeafKinds) /\ last.result.status = "err")
        => get_marker(walker) = last.pre

\* tag("\r\n") has failed away from the start of the text, after matching "\r".
C1_Witness ==
    /\ Parsed({"tag"})
    /\ last.parser.s = <<CR, LF>>
    /\ last.result.status = "err"
    /\ last.pre.index > 0
    /\ current_string(PreWalker) # <<>>
    /\ Head(current_string(PreWalker)) = CR

\* C2: whenever pair or triple returns a failure, whichever component failed,
\* the cursor's byte offset, line and column are what they were before the
\* call.
C2_SequenceFailureLeavesCursor ==
    (Parsed({"pair", "triple"}) /\ last.result.status = "err")
        => get_marker(walker) = last.pre

\* C3: in alt(p1, p2), whenever p1 fails, p2 is started at the position at
\* which alt was called.
C3_AltSecondStartsAtStart ==
    (Parsed({"alt"}) /\ Len(last.result.started) = 2)
        => last.result.started[2] = last.pre

\* C4: opt(p) never returns a failure; when it yields an absent result the
\* cursor is where it was before the call; it yields a present result exactly
\* when p succeeds.
C4_OptAbsentLeavesCursor ==
    Parsed({"opt"}) =>
        /\ last.result.status # "err"
        /\ last.result.status = "ok" =>
              /\ Len(last.result.value) = 0 => get_marker(walker) = last.pre
              /\ Len(last.result.value) = 1
                    <=> Run(last.parser.first, PreWalker).status = "ok"

\* What p does when but_not(p, q) is called.
ButNotFirst == Run(last.parser.first, PreWalker)

\* The text p consumed.
ButNotText ==
    slice(all_data, last.pre.index, ButNotFirst.walker.current_byte_index)

\* What q does on a fresh cursor that holds only the text p consumed and starts
\* at p's start line and column.
ButNotSecond ==
    Run(last.parser.second,
        [all_data |-> ButNotText, all_data_ptr |-> 0, filename |-> filename,
         current_byte_index |-> 0, column |-> last.pre.column,
         line |-> last.pre.line])

\* C5: when but_not(p, q) fails with InverseFailedGot the cursor is left just
\* past the text p consumed; when it fails because p failed, or succeeds, the
\* cursor is where p left it.
C5_ButNotCursorWhereFirstLeftIt ==
    (Parsed({"but_not"}) /\ last.result.status \in {"ok", "err"}) =>
        /\ walker = ButNotFirst.walker
        /\ (last.result.status = "err" /\ ButNotFirst.status = "ok") =>
              /\ last.result.error.kind.variant = "InverseFailedGot"
              /\ current_byte_index
                    = last.pre.index + len(last.result.error.kind.payload)

\* but_not has failed with InverseFailedGot and the cursor is past p's text.
C5_Witness ==
    /\ Parsed({"but_not"})
    /\ last.result.status = "err"
    /\ ButNotFirst.status = "ok"
    /\ current_byte_index > last.pre.index

\* C6: but_not(p, q) returns p's error if p fails; InverseFailedGot(t) located
\* at p's start if p succeeds having consumed t and q, run on a fresh cursor
\* that holds only t, succeeds having consumed all of t; p's value otherwise,
\* with the cursor where p left it.
C6_ButNotOutcomes ==
    (Parsed({"but_not"}) /\ last.result.status \in {"ok", "err"}) =>
        IF ButNotFirst.status = "err"
        THEN /\ last.result.status = "err"
             /\ last.result.error = ButNotFirst.error
        ELSE IF /\ ButNotSecond.status = "ok"
                /\ ButNotSecond.walker.current_byte_index = len(ButNotText)
        THEN /\ last.result.status = "err"
             /\ last.result.error.location
                   = Location(last.pre.column, last.pre.line, filename)
             /\ last.result.error.kind.variant = "InverseFailedGot"
             /\ last.result.error.kind.payload = ButNotText
        ELSE /\ last.result.status = "ok"
             /\ last.result.value = ButNotFirst.value
             /\ walker = ButNotFirst.walker

\* q has succeeded on a proper prefix of the text p consumed, away from the
\* start of the source, and but_not has returned p's value.
C6_Witness ==
    /\ Parsed({"but_not"})
    /\ last.result.status = "ok"
    /\ last.pre.index > 0
    /\ ButNotSecond.status = "ok"
    /\ ButNotSecond.walker.current_byte_index < len(ButNotText)

\* C7: the byte offset is at most the length of the source and on a character
\* boundary, and the remaining text is a suffix of the source, empty at the
\* end.
C7_OffsetOnBoundary ==
    /\ current_byte_index <= len(all_data)
    /\ \E k \in 0..Len(all_data) :
          /\ len(SubSeq(all_data, 1, k)) = current_byte_index
          /\ current_string(walker) = SubSeq(all_data, k + 1, Len(all_data))
    /\ current_byte_index = len(all_data) => current_string(walker) = <<>>

\* A rollback to a marker of another cursor that points inside a multi-byte
\* character of this source has been refused.
C7_Witness ==
    /\ last.op = "pop_back"
    /\ ~last.held.own
    /\ last.held.marker.index < len(all_data)
    /\ ~OnBoundary(all_data, last.held.marker.index)

\* C8: given a marker whose offset is not a character boundary of the source,
\* rollback returns false, span_since and location_of return none, and the
\* cursor is unchanged.
C8_BadMarkerRefused ==
    /\ (last.op = "pop_back" /\ ~OnBoundary(all_data, last.held.marker.index))
          => (~last.ok /\ get_marker(walker) = last.pre)
    /\ (/\ last.op = "span_from_marker_to_here"
        /\ ~OnBoundary(all_data, last.held.marker.index))
          => (last.span = <<>> /\ get_marker(walker) = last.pre)
    /\ (/\ last.op = "get_location_of_marker"
        /\ ~OnBoundary(all_data, last.held.marker.index))
          => (last.location = <<>> /\ get_marker(walker) = last.pre)

\* span_since has been asked for a marker inside a multi-byte character that
\* lies behind the cursor.
C8_Witness ==
    /\ last.op = "span_from_marker_to_here"
    /\ ~OnBoundary(all_data, last.held.marker.index)
    /\ last.held.marker.index < current_byte_index

\* C9: rollback to a marker on a character boundary returns true and sets
\* offset, line and column to the marker's; for a marker of the same cursor
\* the remaining text is again what it was when the marker was taken.
C9_RollbackRestores ==
    (last.op = "pop_back" /\ OnBoundary(all_data, last.held.marker.index)) =>
        /\ last.ok
        /\ get_marker(walker) = last.held.marker
        /\ last.held.own => current_string(walker) = last.held.remaining

\* A rollback to the cursor's own marker that lies ahead of the position the
\* cursor had been rolled back to.
C9_Witness ==
    /\ last.op = "pop_back"
    /\ last.held.own
    /\ last.ok
    /\ last.held.marker.index > last.pre.index
    /\ last.held.marker.line > last.pre.line

\* C10: step with text remaining returns the next character, adds its UTF-8
\* length to the offset and sets (line, column) to (line + 1, 0) on a line
\* feed and to (line, column + 1) on any other character; at the end of input
\* it returns none and changes nothing.
C10_StepAccounting ==
    last.op = "step" =>
        IF last.pre.index < len(all_data)
        THEN LET c == CharAt(all_data, last.pre.index)
             IN  /\ last.character = <<c>>
                 /\ current_byte_index = last.pre.index + len_utf8(c)
                 /\ c = LF => (line = last.pre.line + 1 /\ column = 0)
                 /\ c # LF => (line = last.pre.line
                               /\ column = last.pre.column + 1)
        ELSE /\ last.character = <<>>
             /\ get_marker(walker) = last.pre

\* A line feed has been stepped over after a carriage return on the same line.
C10_Witness ==
    /\ last.op = "step"
    /\ last.character = <<LF>>
    /\ last.pre.column > 0
    /\ CharAt(all_data, last.pre.index - 1) = CR
    /\ line = last.pre.line + 1
    /\ column = 0

\* C11: for a marker m taken from the same cursor, span_since(m) leaves the
\* cursor unchanged and returns a span with empty data at the current location
\* when m's offset is the current offset, the span located at m's line and
\* column whose data is the text between m's offset and the current offset
\* (what remained at m is that text followed by what remains now) when m's
\* offset is smaller, and none when m's offset is greater.
C11_SpanSince ==
    (last.op = "span_from_marker_to_here" /\ last.held.own) =>
        LET m == last.held.marker
        IN  /\ get_marker(walker) = last.pre
            /\ m.index = current_byte_index =>
                  /\ Len(last.span) = 1
                  /\ last.span[1].data = <<>>
                  /\ last.span[1].location = current_location(walker)
            /\ m.index < current_byte_index =>
                  /\ Len(last.span) = 1
                  /\ last.span[1].location
                        = Location(m.column, m.line, filename)
                  /\ len(last.span[1].data) = current_byte_index - m.index
                  /\ last.held.remaining
                        = last.span[1].data \o current_string(walker)
            /\ m.index > current_byte_index => last.span = <<>>

\* span_since has returned a span that starts after the start of the source
\* and crosses a line feed.
C11_Witness ==
    /\ last.op = "span_from_marker_to_here"
    /\ last.held.own
    /\ last.held.marker.index > 0
    /\ last.held.marker.index < current_byte_index
    /\ last.held.marker.line < line
    /\ Len(last.span) = 1

\* The parsing functions whose value is a span: the leaves, accepts,
\* accepts_while, and alt or but_not applied to such functions.
RECURSIVE ReturnsSpan(_)
ReturnsSpan(p) ==
    CASE p.kind \in LeafKinds \cup {"accepts", "accepts_while"} -> TRUE
      [] p.kind = "alt" -> ReturnsSpan(p.first) /\ ReturnsSpan(p.second)
      [] p.kind = "but_not" -> ReturnsSpan(p.first)
      [] OTHER -> FALSE

\* C12: for every successful call of a span-returning parsing function, the
\* byte length of the data of the span returned is the cursor's byte offset
\* after the call minus its byte offset before the call.
C12_SpanLengthIsConsumption ==
    (last.op = "parse" /\ ReturnsSpan(last.parser)
        /\ last.result.status = "ok")
        => len(last.result.value.data) = current_byte_index - last.pre.index

\* The location at which the last operation was called.
PreLocation == Location(last.pre.column, last.pre.line, filename)

\* s is a prefix of t.
StartsWith(t, s) == Len(t) >= Len(s) /\ SubSeq(t, 1, Len(s)) = s

\* C13: tag(s) succeeds if and only if the remaining text starts with s; on
\* success it returns the span with data s at the location of the call and
\* leaves the cursor just past s; otherwise, on a mismatching character or
\* when the input ends before s is complete, it fails with ExpectedTag(s) at
\* the location of the call.
C13_TagMatchesLiteral ==
    Parsed({"tag"}) =>
        LET s == last.parser.s
            rest == current_string(PreWalker)
        IN  /\ last.result.status \in {"ok", "err"}
            /\ last.result.status = "ok" <=> StartsWith(rest, s)
            /\ last.result.status = "ok" =>
                  /\ last.result.value.data = s
                  /\ last.result.value.location = PreLocation
                  /\ current_byte_index = last.pre.index + len(s)
                  /\ rest = s \o current_string(walker)
            /\ last.result.status = "err" =>
                  /\ last.result.error.location = PreLocation
                  /\ last.result.error.kind = ExpectedTag(s)

\* tag("\r\n") has failed because the input ends after the "\r".
C13_Witness ==
    /\ Parsed({"tag"})
    /\ last.parser.s = <<CR, LF>>
    /\ current_string(PreWalker) = <<CR>>
    /\ last.result.status = "err"

\* The number of characters of the longest prefix of t whose characters are
\* all in chars.
PrefixIn(t, chars) ==
    Cardinality({k \in 1..Len(t) : \A j \in 1..k : t[j] \in chars})

\* C14: take_while(pred, kind) consumes exactly the longest prefix of the
\* remaining text whose characters all satisfy pred and returns it as a span
\* at the location of the call; it fails, with ExpectedKind(kind) at the
\* location of the call, if and only if that prefix is empty.
C14_TakeWhileLongestPrefix ==
    Parsed({"take_while"}) =>
        LET f == last.parser.f
            rest == current_string(PreWalker)
            n == PrefixIn(rest, f.chars)
        IN  /\ last.result.status \in {"ok", "err"}
            /\ last.result.status = "err" <=> n = 0
            /\ current_byte_index = last.pre.index + len(SubSeq(rest, 1, n))
            /\ current_string(walker) = SubSeq(rest, n + 1, Len(rest))
            /\ last.result.status = "ok" =>
                  /\ last.result.value.data = SubSeq(rest, 1, n)
                  /\ last.result.value.location = PreLocation
            /\ last.result.status = "err" =>
                  /\ last.result.error.location = PreLocation
                  /\ last.result.error.kind = ExpectedKind(f.kind)

\* take_while has consumed two characters and stopped at a third that does
\* not satisfy the predicate.
C14_Witness ==
    /\ Parsed({"take_while"})
    /\ last.result.status = "ok"
    /\ Len(last.result.value.data) = 2
    /\ current_string(walker) # <<>>

\* The characters one_of(charset) or take_if(pred, kind) accepts.
Accepted == IF last.parser.kind = "one_of" THEN last.parser.charset
            ELSE last.parser.f.chars

\* C15: one_of(charset) and take_if(pred, kind) consume exactly one character
\* and return it as a one-character span at the location of the call if and
\* only if a next character exists and is in charset (satisfies pred);
\* otherwise they fail with ExpectedOneOf(charset) (ExpectedOneOfKind(kind))
\* at the location of the call.
C15_OneCharacter ==
    Parsed({"one_of", "take_if"}) =>
        LET rest == current_string(PreWalker)
            accept == rest # <<>> /\ Head(rest) \in Accepted
        IN  /\ last.result.status \in {"ok", "err"}
            /\ last.result.status = "ok" <=> accept
            /\ last.result.status = "ok" =>
                  /\ last.result.value.data = <<Head(rest)>>
                  /\ last.result.value.location = PreLocation
                  /\ current_byte_index
                        = last.pre.index + len_utf8(Head(rest))
                  /\ current_string(walker) = Tail(rest)
            /\ last.result.status = "err" =>
                  /\ last.result.error.location = PreLocation
                  /\ last.result.error.kind.variant
                        = (IF last.parser.kind = "one_of"
                           THEN "ExpectedOneOf" ELSE "ExpectedOneOfKind")
                  /\ last.result.error.kind.payload
                        = (IF last.parser.kind = "one_of"
                           THEN last.parser.charset ELSE last.parser.f.kind)

\* take_if has failed, away from the start of the source, on a character
\* that does not satisfy the predicate.
C15_Witness ==
    /\ Parsed({"take_if"})
    /\ last.result.status = "err"
    /\ last.pre.index > 0
    /\ current_string(PreWalker) # <<>>

\* p leaves the cursor unchanged whenever it fails, at every position of the
\* source.
RestoresOnFailure(p) ==
    \A w \in StepsFrom(from_data(all_data, filename)) :
        Run(p, w).status = "err" => Run(p, w).walker = w

\* The texts consumed by the successive successful runs of p from w, up to
\* its first failure.
RECURSIVE RunsOf(_, _)
RunsOf(p, w) ==
    LET r == Run(p, w)
    IN  IF r.status = "ok" /\ r.walker # w
        THEN <<slice(w.all_data, w.current_byte_index,
                     r.walker.current_byte_index)>> \o RunsOf(p, r.walker)
        ELSE <<>>

RECURSIVE Concat(_)
Concat(texts) ==
    IF texts = <<>> THEN <<>> ELSE Head(texts) \o Concat(Tail(texts))

\* C16: for p that leaves the cursor unchanged when it fails, a call of
\* accepts_while(p) that returns fails if and only if the first run of p
\* fails, with that run's error and the cursor unchanged; otherwise it returns
\* the span at the location of the call whose data is the concatenation, in
\* order, of the texts consumed by the successful runs of p up to its first
\* failure (at least one), and leaves the cursor just past that text.
C16_AcceptsWhileRuns ==
    (/\ Parsed({"accepts_while"})
     /\ last.result.status \in {"ok", "err"}
     /\ RestoresOnFailure(last.parser.combinator)) =>
        LET p == last.parser.combinator
            first == Run(p, PreWalker)
            runs == RunsOf(p, PreWalker)
        IN  /\ last.result.status = "err" <=> first.status = "err"
            /\ last.result.status = "err" =>
                  /\ last.result.error = first.error
                  /\ get_marker(walker) = last.pre
            /\ last.result.status = "ok" =>
                  /\ Len(runs) >= 1
                  /\ last.result.value.location = PreLocation
                  /\ last.result.value.data = Concat(runs)
                  /\ current_byte_index = last.pre.index + len(Concat(runs))
                  /\ current_string(PreWalker)
                        = Concat(runs) \o current_string(walker)
                  /\ Run(p, walker).status = "err"

\* accepts_while has returned the text of two successful runs of p, called
\* away from the start of the source.
C16_Witness ==
    /\ Parsed({"accepts_while"})
    /\ last.result.status = "ok"
    /\ RestoresOnFailure(last.parser.combinator)
    /\ last.pre.index > 0
    /\ Len(RunsOf(last.parser.combinator, PreWalker)) = 2

\* What stepping w to the end of its text yields: each character with the
\* location of the cursor after it.
RECURSIVE TraceOf(_)
TraceOf(w) ==
    LET r == step(w)
    IN  IF r.character = <<>> THEN <<>>
        ELSE <<[character |-> r.character[1],
                location |-> current_location(r.walker)]>>
             \o TraceOf(r.walker)

\* C17: the cursor built by from_span(s) starts at byte offset 0 of s.data
\* with the line, column and filename of s.location; stepping it yields the
\* characters and locations the original cursor yields over the same text
\* from s's start, and it reports the end of input at the end of s.data.
C17_FromSpanSameSteps ==
    [][FromSpan =>
        LET s == last.span[1]
            origin == [walker EXCEPT
                          !.current_byte_index = last.held.marker.index,
                          !.line = s.location.line,
                          !.column = s.location.column]
        IN  /\ current_byte_index' = 0
            /\ all_data' = s.data
            /\ current_location(walker)' = s.location
            /\ Len(TraceOf(walker')) = Len(s.data)
            /\ TraceOf(walker') = SubSeq(TraceOf(origin), 1, Len(s.data))]_vars

\* A cursor has been built over a span that starts after the start of the
\* source, away from column 0, and crosses a line feed.
C17_Witness ==
    /\ last.op = "from_span"
    /\ all_data_ptr > 0
    /\ column > 0
    /\ \E i \in 1..Len(all_data) : all_data[i] = LF

\* The number of line feeds in t.
CountLF(t) == Cardinality({k \in 1..Len(t) : t[k] = LF})

\* The line (from 0) of the k-th character of t.
LineOfChar(t, k) == CountLF(SubSeq(t, 1, k - 1))

\* The whole lines a through b of t, without the line feed that ends line b.
WholeLines(t, a, b) ==
    LET ks == {k \in 1..Len(t) :
                  /\ LineOfChar(t, k) \in a..b
                  /\ ~(t[k] = LF /\ LineOfChar(t, k) = b)}
    IN  IF ks = {} THEN <<>>
        ELSE SubSeq(t, CHOOSE k \in ks : \A j \in ks : k <= j,
                       CHOOSE k \in ks : \A j \in ks : k >= j)

\* C18: for every span s lying in the cursor's source and every radius r,
\* expand_span(s, r) returns the span whose data is the whole lines
\* max(Ls - r, 0) through min(Le + r, last line), Ls the line of s's start and
\* Le the line containing s's end, without the final line's line feed, located
\* at column 0 of line max(Ls - r, 0).
C18_ExpandSpanWholeLines ==
    (last.op = "expand_span" /\ last.span.ptr >= all_data_ptr) =>
        LET Ls == last.span.location.line
            Le == Ls + CountLF(last.span.data)
            r == last.lines_away
            from == IF Ls > r THEN Ls - r ELSE 0
            to == IF Le + r < CountLF(all_data) THEN Le + r
                  ELSE CountLF(all_data)
        IN  /\ last.result.status = "ok"
            /\ last.result.span.data = WholeLines(all_data, from, to)
            /\ last.result.span.location = Location(0, from, filename)

\* The rows of the last rendering and the numbers of the source lines among
\* them, in the order written.
Rows == last.result.output
LineRows == SelectSeq(Rows, LAMBDA row : row.kind = "line")

\* Line n (from 0) of t, without its line feed.
SourceLine(t, n) == WholeLines(t, n, n)

\* t without carriage returns.
WithoutCR(t) == SelectSeq(t, LAMBDA c : c # CR)

\* C19: in the output of one rendering the source lines printed are lines of
\* the source, each printed at most once, in strictly increasing line-number
\* order, whatever the notes and however their context windows overlap.
C19_LinesOnceInOrder ==
    last.op = "fmt" =>
        /\ \A i \in 1..Len(LineRows) :
              /\ LineRows[i].number - 1 \in 0..CountLF(all_data)
              /\ WithoutCR(LineRows[i].data)
                    = WithoutCR(SourceLine(all_data, LineRows[i].number - 1))
        /\ \A i, j \in 1..Len(LineRows) :
              i < j => LineRows[i].number < LineRows[j].number

\* A rendering of two notes on neighbouring lines, whose context windows
\* overlap, has completed and printed three lines.
C19_Witness ==
    /\ last.op = "fmt"
    /\ last.result.status = "ok"
    /\ Len(last.notes) = 2
    /\ last.notes[2].span.location.line = last.notes[1].span.location.line + 1
    /\ Len(LineRows) = 3

\* The rows of notes directly beneath the i-th row.
RECURSIVE Beneath(_)
Beneath(i) ==
    IF i + 1 <= Len(Rows) /\ Rows[i + 1].kind = "note"
    THEN <<Rows[i + 1]>> \o Beneath(i + 1)
    ELSE <<>>

\* The notes of the full set whose span starts on line n.
NotesOnLine(n) == {k \in 1..Len(last.notes) : last.notes[k].span.location.line = n}

\* C20: for each source line printed, the number of caret rows directly
\* beneath it is the number of notes in the full set whose span starts on that
\* line (none, one, or k for k >= 2), and the rows are those of these notes.
C20_CaretRowsPerLine ==
    last.op = "fmt" =>
        \A i \in 1..Len(Rows) :
            Rows[i].kind = "line" =>
                LET on == NotesOnLine(Rows[i].number - 1)
                    rows == Beneath(i)
                IN  /\ Len(rows) = Cardinality(on)
                    /\ {rows[k].note : k \in 1..Len(rows)}
                          = {last.notes[k].note : k \in on}

\* A completed rendering has printed a line with two caret rows beneath it
\* and a line with none.
C20_Witness ==
    /\ last.op = "fmt"
    /\ last.result.status = "ok"
    /\ \E i \in 1..Len(Rows) : Rows[i].kind = "line" /\ Len(Beneath(i)) = 2
    /\ \E i \in 1..Len(Rows) : Rows[i].kind = "line" /\ Len(Beneath(i)) = 0

\* C21: whatever the order of the notes given to the constructor, it stores
\* the same notes sorted by ascending line and, within a line, by descending
\* column; and the caret rows beneath a printed source line are in descending
\* column order.
C21_NotesSorted ==
    last.op \in {"new", "fmt"} =>
        /\ Len(last.notes) = Len(last.given)
        /\ Elements(last.notes) = Elements(last.given)
        /\ \A i, j \in 1..Len(last.notes) :
              i < j =>
                 LET a == last.notes[i].span.location
                     b == last.notes[j].span.location
                 IN  \/ a.line < b.line
                     \/ a.line = b.line /\ a.column >= b.column
        /\ last.op = "fmt" =>
              \A i \in 1..Len(Rows) :
                  Rows[i].kind = "line" =>
                      \A k, l \in 1..Len(Beneath(i)) :
                          k < l => Beneath(i)[k].column >= Beneath(i)[l].column

\* Two notes of one line were given in ascending column order, after a note
\* of a later line, and the rendering has printed their two caret rows
\* beneath the line.
C21_Witness ==
    /\ last.op = "fmt"
    /\ last.result.status = "ok"
    /\ Len(last.given) = 3
    /\ last.given[1].span.location.line > last.given[2].span.location.line
    /\ last.given[2].span.location.line = last.given[3].span.location.line
    /\ last.given[2].span.location.column < last.given[3].span.location.column
    /\ \E i \in 1..Len(Rows) :
          /\ Rows[i].kind = "line"
          /\ Len(Beneath(i)) = 2
          /\ Beneath(i)[1].column > Beneath(i)[2].column

\* The components of pair or triple, in order.
Components ==
    IF last.parser.kind = "pair" THEN <<last.parser.first, last.parser.second>>
    ELSE <<last.parser.first, last.parser.second, last.parser.third>>

\* The component of pair or triple that was started last, and the cursor it
\* was started on.
LastStarted == Components[Len(last.result.started)]
LastStart == last.result.started[Len(last.result.started)]
LastStartWalker ==
    [walker EXCEPT !.current_byte_index = LastStart.index,
                   !.line = LastStart.line,
                   !.column = LastStart.column]

\* Where the parser whose attempt failed was started, when p fails on w: p
\* itself for a leaf and for the InverseFailedGot of but_not, else the one
\* inside the component of p that failed.
RECURSIVE FailedAt(_, _)
FailedAt(p, w) ==
    LET after(q) == Run(q, w).walker
        failed(q) == Run(q, w).status = "err"
    IN  CASE p.kind \in {"map", "accepts", "accepts_while"} ->
                FailedAt(p.combinator, w)
          [] p.kind = "pair" ->
                IF failed(p.first) THEN FailedAt(p.first, w)
                ELSE FailedAt(p.second, after(p.first))
          [] p.kind = "triple" ->
                IF failed(p.first) THEN FailedAt(p.first, w)
                ELSE IF Run(p.second, after(p.first)).status = "err"
                THEN FailedAt(p.second, after(p.first))
                ELSE FailedAt(p.third, Run(p.second, after(p.first)).walker)
          [] p.kind = "alt" -> FailedAt(p.second, after(p.first))
          [] p.kind = "but_not" ->
                IF failed(p.first) THEN FailedAt(p.first, w) ELSE get_marker(w)
          [] OTHER -> get_marker(w)

AltFirst == Run(last.parser.first, PreWalker)
AltSecond ==
    Run(last.parser.second,
        [walker EXCEPT !.current_byte_index = last.result.started[2].index,
                       !.line = last.result.started[2].line,
                       !.column = last.result.started[2].column])

\* C24: alt(p1, p2) returns p1's value without running p2 when p1 succeeds;
\* otherwise it returns p2's result, so that when both fail the error is
\* exactly p2's error.
C24_AltResult ==
    (Parsed({"alt"}) /\ last.result.status \in {"ok", "err"}) =>
        IF AltFirst.status = "ok"
        THEN /\ last.result.status = "ok"
             /\ last.result.value = AltFirst.value
             /\ Len(last.result.started) = 1
             /\ walker = AltFirst.walker
        ELSE /\ Len(last.result.started) = 2
             /\ last.result.status = AltSecond.status
             /\ last.result.status = "ok" =>
                   last.result.value = AltSecond.value
             /\ last.result.status = "err" =>
                   last.result.error = AltSecond.error
             /\ walker = AltSecond.walker

\* Both parsers of alt have failed, away from the start of the source, with
\* errors of different kinds, and alt has returned the second's.
C24_Witness ==
    /\ Parsed({"alt"})
    /\ last.result.status = "err"
    /\ last.pre.index > 0
    /\ AltFirst.status = "err"
    /\ AltFirst.error.kind.variant # last.result.error.kind.variant

\* The positions of a cursor over the source.
Positions == StepsFrom(from_data(all_data, filename))

\* C25: accepts_while(p) terminates on every finite input for every parser p
\* that itself terminates, parsers that can succeed without consuming a
\* character included.
C25_AcceptsWhileTerminates ==
    (/\ Parsed({"accepts_while"})
     /\ \A w \in Positions :
           Run(last.parser.combinator, w).status # "diverge") =>
        last.result.status # "diverge"

\* C26: expand_span(s, r) terminates for every span s lying in the cursor's
\* source and every radius r, multi-byte characters before the span included.
C26_ExpandSpanTerminates ==
    last.op = "expand_span" => last.result.status # "diverge"

\* C27: expand_span(s, r) returns without aborting (no failed assertion, no
\* out-of-range or mid-character slice) for every span s obtained from
\* span_since on the same cursor and every radius r.
C27_ExpandSpanNoAbort ==
    last.op = "expand_span" => last.result.status # "panic"

\* The rows of notes that show the k-th note given to the constructor.
RowsOfNote(k) ==
    {i \in 1..Len(Rows) :
        Rows[i].kind = "note" /\ Rows[i].note = last.given[k].note}

\* The row of the source line above the i-th row.
LineAbove(i) ==
    Rows[CHOOSE j \in 1..i :
             /\ Rows[j].kind = "line"
             /\ \A l \in (j + 1)..i : Rows[l].kind # "line"]

\* C28: in the output of a completed rendering every note passed to the
\* constructor is shown by exactly one caret row, placed beneath the printed
\* source line the note is anchored to.
C28_EveryNoteOnce ==
    (last.op = "fmt" /\ last.result.status = "ok") =>
        \A k \in 1..Len(last.given) :
            /\ Cardinality(RowsOfNote(k)) = 1
            /\ \A i \in RowsOfNote(k) :
                  /\ \E j \in 1..i : Rows[j].kind = "line"
                  /\ LineAbove(i).number - 1 = last.given[k].span.location.line
                  /\ Rows[i].column = last.given[k].span.location.column

\* The characters of the source before the cursor.
Consumed == SubSeq(all_data, 1, chars_before(all_data, current_byte_index))

\* The characters of t after its last line feed.
RECURSIVE AfterLastLF(_)
AfterLastLF(t) ==
    IF t = <<>> \/ t[Len(t)] = LF THEN <<>>
    ELSE AfterLastLF(SubSeq(t, 1, Len(t) - 1)) \o <<t[Len(t)]>>

\* C29: for a cursor created by from_data, in every state reached through
\* step, calls of the parsing functions and rollback to markers taken from
\* that cursor, line is the number of line feeds in source[0 .. offset) and
\* column is the number of characters between the last line feed before
\* offset (or the start of the source) and offset.
C29_LineAndColumn ==
    /\ OnBoundary(all_data, current_byte_index)
    /\ line = CountLF(Consumed)
    /\ column = Len(AfterLastLF(Consumed))

\* The cursor has been rolled back, over at least one character, to a marker
\* of its own behind a line feed and a two-byte character.
C29_Witness ==
    /\ last.op = "pop_back"
    /\ last.ok
    /\ last.pre.index > current_byte_index
    /\ line > 0
    /\ column > 0
    /\ current_byte_index > Len(Consumed)

\* C30: for every input and every parser run on one cursor, the marker each
\* parser takes on entry is a valid boundary at or before the current position
\* whenever that parser looks it up, so the unwrapped span_since and
\* location_of lookups never fail; and a successful parse never leaves the
\* cursor before the position where it started.
C30_LookupsNeverFail ==
    last.op = "parse" =>
        /\ last.result.status # "panic"
        /\ \A i \in 1..Len(last.result.started) :
              /\ OnBoundary(all_data, last.result.started[i].index)
              /\ last.result.started[i].index >= last.pre.index
        /\ last.result.status = "ok" => current_byte_index >= last.pre.index

\* A parser that looks up the span since its marker has succeeded around a
\* parser of another kind, started behind a two-byte character.
C30_Witness ==
    /\ Parsed({"accepts", "accepts_while", "but_not"})
    /\ last.result.status = "ok"
    /\ last.pre.index > chars_before(all_data, last.pre.index)
    /\ current_byte_index > last.pre.index
    /\ last.parser.kind = "but_not" \/ last.parser.combinator.kind \notin LeafKinds

====
